---- MODULE Spec2Model ----
(***************************************************************************)
(* Model of the LM Studio image renamer: the file-name helpers of           *)
(* src/lib/lmstudio.ts (sanitizeFilename, getUniqueFilename, renameImage,   *)
(* getImageName) and the batch loop of the Raycast command                  *)
(* (Command.init, ModelSelectionForm.handleSubmit,                          *)
(* ProcessingView.processImages).                                           *)
(*                                                                         *)
(* Strings are sequences of one-character strings, so that concatenation,  *)
(* substring, trim and the regular-expression replacements are computed as *)
(* the code computes them.  A path is a record [dir, name]: path.join,      *)
(* path.dirname and path.basename are the record constructor and its       *)
(* fields.  The filesystem is a function from the existing paths to the    *)
(* content of the file stored there.  Only the command changes the         *)
(* filesystem: other programs writing to the directory while a batch runs  *)
(* are outside the model.                                                  *)
(***************************************************************************)
EXTENDS Integers, Sequences, FiniteSets, TLC

VARIABLES
    pc,            \* control point of the command (see the actions)
    foldCase,      \* TRUE when the volume compares file names case-insensitively
    fs,            \* the filesystem: path -> content
    fs0,           \* the filesystem when the command was started
    finderItems,   \* getSelectedFinderItems(): the selected paths, in order
    error,         \* Command's `error` state
    images,        \* Command's `images` state / ProcessingView's prop
    results,       \* ProcessingView's `results` state
    i,             \* loop index of processImages
    successCount,  \* local counter of processImages
    env,           \* what the environment did to the task in progress
    result,        \* the RenameResult renameImage is about to resolve with
    outcomes,      \* the RenameResults processImages has received, in order
    toast,         \* the completion toast's tally, once shown
    initEnv,       \* how the server answered Command.init
    nameOut,       \* what getImageName settled with (SpecGetImageName)
    sanIn,         \* argument of sanitizeFilename (SpecSanitize)
    sanOut         \* value of sanitizeFilename(sanIn) (SpecSanitize)

vars == <<pc, foldCase, fs, fs0, finderItems, error, images, results, i,
          successCount, env, result, outcomes, toast, initEnv, nameOut,
          sanIn, sanOut>>

(***************************************************************************)
(* Bounds of the model.                                                    *)
(***************************************************************************)
\* most paths in one Finder selection
MaxSelected == 3
\* longest tail appended to the padding of a sanitizeFilename input
MaxTail == 3
\* most paths in one Finder selection of a batch followed to its end
MaxLiveSelected == 2

(***************************************************************************)
(* Characters.                                                             *)
(***************************************************************************)
Upper == <<"A","B","C","D","E","F","G","H","I","J","K","L","M",
           "N","O","P","Q","R","S","T","U","V","W","X","Y","Z">>
Lower == <<"a","b","c","d","e","f","g","h","i","j","k","l","m",
           "n","o","p","q","r","s","t","u","v","w","x","y","z">>
Digits == <<"0","1","2","3","4","5","6","7","8","9">>

Range(s) == {s[k] : k \in DOMAIN s}

\* the lowercase letter of every uppercase letter
LowerOf == [c \in Range(Upper) |-> Lower[CHOOSE k \in DOMAIN Upper : Upper[k] = c]]

\* String.prototype.toLowerCase, one character
ToLowerChar(c) == IF c \in DOMAIN LowerOf THEN LowerOf[c] ELSE c

\* String.prototype.toLowerCase
ToLowerCase(s) == [k \in DOMAIN s |-> ToLowerChar(s[k])]

\* the regular-expression class \s, also what String.prototype.trim strips
SpaceChars == {" ", "\t", "\n", "\r", "\f"}
IsSpace(c) == c \in SpaceChars

\* the class [a-zA-Z0-9 _-] of sanitizeFilename
AllowedChars == Range(Upper) \cup Range(Lower) \cup Range(Digits) \cup {" ", "_", "-"}
IsAllowed(c) == c \in AllowedChars

\* String.prototype.trim: what lies between the first and the last character
\* that is not white space
Trim(s) ==
    LET solid == {k \in DOMAIN s : ~IsSpace(s[k])}
        first == CHOOSE k \in solid : \A j \in solid : k <= j
        last  == CHOOSE k \in solid : \A j \in solid : j <= k
    IN  IF solid = {} THEN <<>> ELSE SubSeq(s, first, last)

\* Number.prototype.toString of a non-negative integer
RECURSIVE ToStr(_)
ToStr(n) ==
    IF n < 10 THEN <<Digits[n + 1]>>
    ELSE ToStr(n \div 10) \o <<Digits[(n % 10) + 1]>>

(***************************************************************************)
(* sanitizeFilename.                                                       *)
(***************************************************************************)
\* the limit of substring(0, 100)
SanitizeMax == 100

\* .replace(/[^a-zA-Z0-9 _-]/g, "")
StripInvalid(s) == SelectSeq(s, IsAllowed)

\* .replace(/\s+/g, " "): every maximal run of white space becomes one
\* space.  Computed by halves: a run that spans the cut leaves a space on
\* both sides of it, and the two are one run.
RECURSIVE CollapseSpaces(_)
CollapseSpaces(s) ==
    IF Len(s) = 0 THEN <<>>
    ELSE IF Len(s) = 1 THEN (IF IsSpace(s[1]) THEN <<" ">> ELSE s)
    ELSE LET half  == Len(s) \div 2
             left  == CollapseSpaces(SubSeq(s, 1, half))
             right == CollapseSpaces(SubSeq(s, half + 1, Len(s)))
         IN  IF left[Len(left)] = " " /\ right[1] = " "
             THEN left \o Tail(right)
             ELSE left \o right

\* .substring(0, n)
Substring0(s, n) == SubSeq(s, 1, IF Len(s) < n THEN Len(s) ELSE n)

sanitizeFilename(name) ==
    Substring0(Trim(CollapseSpaces(StripInvalid(name))), SanitizeMax)

(***************************************************************************)
(* Paths and the filesystem.                                               *)
(***************************************************************************)
\* path.join(dir, name)
PathJoin(dir, name) == [dir |-> dir, name |-> name]

\* path.basename(p), path.dirname(p)
BaseName(p) == p.name
DirName(p) == p.dir

\* index of the last "." of a name, 0 when there is none
LastDot(name) ==
    IF \E k \in DOMAIN name : name[k] = "."
    THEN CHOOSE k \in DOMAIN name :
            name[k] = "." /\ \A j \in DOMAIN name : name[j] = "." => j <= k
    ELSE 0

\* path.extname(p): from the last "." of the basename, "" when the name has
\* no "." or only a leading one
ExtName(p) ==
    IF LastDot(p.name) <= 1 THEN <<>>
    ELSE SubSeq(p.name, LastDot(p.name), Len(p.name))

\* the name a volume compares: folded when it is case-insensitive
FsKey(name) == IF foldCase THEN ToLowerCase(name) ELSE name

\* two paths name the same directory entry
SameFile(p, q) == p.dir = q.dir /\ FsKey(p.name) = FsKey(q.name)

\* fs.existsSync(p)
existsSync(p) == \E q \in DOMAIN fs : SameFile(q, p)

\* mutant of renameSync: the file is copied, the old entry stays
renameSyncCopy(old, new) ==
    LET src == CHOOSE q \in DOMAIN fs : SameFile(q, old)
    IN  [q \in DOMAIN fs \cup {new} |-> IF q = new THEN fs[src] ELSE fs[q]]

\* the filesystem after a successful fs.renameSync(old, new): the entry of
\* `old` is stored under `new`, replacing whatever `new` named before
renameSync(old, new) ==
    LET src  == CHOOSE q \in DOMAIN fs : SameFile(q, old)
        keep == {q \in DOMAIN fs : ~SameFile(q, old) /\ ~SameFile(q, new)}
    IN  [q \in keep \cup {new} |-> IF q = new THEN fs[src] ELSE fs[q]]

(***************************************************************************)
(* getUniqueFilename.                                                      *)
(***************************************************************************)
\* the while loop: `candidate` and `counter` are the loop's variables
RECURSIVE UniqueLoop(_, _, _, _, _)
UniqueLoop(dir, baseName, ext, candidate, counter) ==
    IF existsSync(candidate)
    THEN UniqueLoop(dir, baseName, ext,
                    PathJoin(dir, baseName \o <<"_">> \o ToStr(counter) \o ext),
                    counter + 1)
    ELSE candidate

\* mutant of getUniqueFilename: the counter starts at 0
getUniqueFilenameFromZero(dir, baseName, ext) ==
    UniqueLoop(dir, baseName, ext, PathJoin(dir, baseName \o ext), 0)

\* mutant of getUniqueFilename: the first candidate is returned unchecked
getUniqueFilenameNoCheck(dir, baseName, ext) == PathJoin(dir, baseName \o ext)

\* mutant of getUniqueFilename: an `if` in place of the `while`, the
\* suffixed candidate is not checked again
getUniqueFilenameOnce(dir, baseName, ext) ==
    IF existsSync(PathJoin(dir, baseName \o ext))
    THEN PathJoin(dir, baseName \o <<"_">> \o ToStr(1) \o ext)
    ELSE PathJoin(dir, baseName \o ext)

getUniqueFilename(dir, baseName, ext) ==
    UniqueLoop(dir, baseName, ext, PathJoin(dir, baseName \o ext), 1)

\* the number of times the while loop of getUniqueFilename evaluates its
\* condition fs.existsSync(candidate)
RECURSIVE UniqueLoopProbes(_, _, _, _, _)
UniqueLoopProbes(dir, baseName, ext, candidate, counter) ==
    IF existsSync(candidate)
    THEN 1 + UniqueLoopProbes(dir, baseName, ext,
                    PathJoin(dir, baseName \o <<"_">> \o ToStr(counter) \o ext),
                    counter + 1)
    ELSE 1

getUniqueFilenameProbes(dir, baseName, ext) ==
    UniqueLoopProbes(dir, baseName, ext, PathJoin(dir, baseName \o ext), 1)

(***************************************************************************)
(* Values.                                                                 *)
(***************************************************************************)
\* JavaScript's undefined, for an optional name or message.  A message is a
\* sequence of its fragments (a template literal's parts), a name a sequence
\* of characters; neither is ever this one-element sequence.
Undefined == <<"undefined">>

\* RenameResult
RenameResult(success, oldName, newName, err) ==
    [success |-> success, oldName |-> oldName, newName |-> newName, error |-> err]

\* the value of `result` while renameImage has not resolved
NoResult == [success |-> FALSE, oldName |-> Undefined, newName |-> Undefined,
             error |-> <<"pending">>]

\* ProcessingResult
ProcessingResult(oldName, newName, status, err) ==
    [oldName |-> oldName, newName |-> newName, status |-> status, error |-> err]

\* the tally of the completion toast
NoToast == [shown |-> FALSE, successCount |-> 0, total |-> 0]
Tally(n, total) == [shown |-> TRUE, successCount |-> n, total |-> total]

(***************************************************************************)
(* The files and the selections the model starts from.                     *)
(***************************************************************************)
CatJpg   == PathJoin("D", <<"c","a","t",".","j","p","g">>)
Cat1Jpg  == PathJoin("D", <<"c","a","t","_","1",".","j","p","g">>)
CatUpper == PathJoin("E", <<"c","a","t",".","J","P","G">>)
NotesTxt == PathJoin("D", <<"n","o","t","e","s",".","t","x","t">>)

FileUniverse == {CatJpg, Cat1Jpg, CatUpper, NotesTxt}

\* the sequences of distinct elements of S of length at most n
RECURSIVE DistinctSeqs(_, _)
DistinctSeqs(S, n) ==
    IF n = 0 THEN {<<>>}
    ELSE LET shorter == DistinctSeqs(S, n - 1)
         IN  shorter \cup
             UNION {{Append(q, x) : x \in S \ Range(q)} : q \in shorter}

(***************************************************************************)
(* The model server's replies to POST /v1/chat/completions.                *)
(***************************************************************************)
\* fetch rejects (the connection fails)
ReplyThrow == [threw |-> TRUE, ok |-> FALSE, statusText |-> "",
               error |-> Undefined, content |-> Undefined]
HttpReply(ok, statusText, err, content) ==
    [threw |-> FALSE, ok |-> ok, statusText |-> statusText,
     error |-> err, content |-> content]

SuggestCat   == <<" ","c","a","t","!","\n">>
SuggestCat1  == <<"c","a","t","_","1">>
SuggestJunk  == <<"?","!">>
SuggestBlank == <<" ","\n">>
SuggestEmpty == <<>>

\* no reply: the request was not sent, or has not settled
NoReply == [threw |-> FALSE, ok |-> FALSE, statusText |-> "none",
            error |-> Undefined, content |-> Undefined]

\* the environment's part in one task: whether sips converts the image, how
\* the completion request settles, whether the system allows the rename
NoEnv == [preprocessOk |-> FALSE, sips |-> "not run", readOk |-> FALSE,
          reply |-> NoReply, renameOk |-> FALSE]

Replies ==
    { ReplyThrow,
      HttpReply(FALSE, "Internal Server Error", Undefined, Undefined),
      HttpReply(TRUE, "OK", <<"model not loaded">>, SuggestCat),
      HttpReply(TRUE, "OK", Undefined, Undefined),
      HttpReply(TRUE, "OK", Undefined, SuggestBlank),
      HttpReply(TRUE, "OK", Undefined, SuggestEmpty),
      HttpReply(TRUE, "OK", Undefined, SuggestCat),
      HttpReply(TRUE, "OK", Undefined, SuggestCat1),
      HttpReply(TRUE, "OK", Undefined, SuggestJunk) }

(***************************************************************************)
(* isImageFile, getImageName, renameImage.                                 *)
(***************************************************************************)
imageExtensions ==
    { <<".","j","p","g">>, <<".","j","p","e","g">>, <<".","p","n","g">>,
      <<".","g","i","f">>, <<".","w","e","b","p">>, <<".","b","m","p">>,
      <<".","t","i","f","f">> }

\* mutant of isImageFile: the extension is compared as it is written
isImageFileCaseSensitive(filePath) == ExtName(filePath) \in imageExtensions

\* isImageFile: path.extname(filePath).toLowerCase() is in the list
isImageFile(filePath) == ToLowerCase(ExtName(filePath)) \in imageExtensions

\* what an async function settles with
Returned(v) == [threw |-> FALSE, value |-> v, message |-> Undefined]
Thrown(msg) == [threw |-> TRUE, value |-> Undefined, message |-> msg]

\* mutant of getImageName: the error field of the body is looked at before
\* the status of the response
getImageNameErrorFirst(reply) ==
    IF reply.threw THEN Thrown(<<"fetch failed">>)
    ELSE IF reply.error # Undefined THEN Thrown(<<"LM Studio error: ">> \o reply.error)
    ELSE IF ~reply.ok THEN Thrown(<<"API request failed: ", reply.statusText>>)
    ELSE LET suggestedName ==
                 IF reply.content = Undefined THEN Undefined ELSE Trim(reply.content)
         IN  IF suggestedName = Undefined \/ suggestedName = <<>>
             THEN Thrown(<<"No name suggestion returned">>)
             ELSE Returned(suggestedName)

\* getImageName from the point where fetch settles with `reply`
getImageName(reply) ==
    IF reply.threw THEN Thrown(<<"fetch failed">>)
    ELSE IF ~reply.ok THEN Thrown(<<"API request failed: ", reply.statusText>>)
    ELSE IF reply.error # Undefined THEN Thrown(<<"LM Studio error: ">> \o reply.error)
    ELSE LET suggestedName ==
                 IF reply.content = Undefined THEN Undefined ELSE Trim(reply.content)
         IN  IF suggestedName = Undefined \/ suggestedName = <<>>
             THEN Thrown(<<"No name suggestion returned">>)
             ELSE Returned(suggestedName)

\* the value of `nameOut` while getImageName has not settled
NotNamed == Thrown(<<"pending">>)

(***************************************************************************)
(* checkServerConnection and fetchModels.                                  *)
(***************************************************************************)
\* how GET /v1/models settles for checkServerConnection: fetch rejects (a
\* network error, or the AbortSignal of 5000 ms fires) or resolves with a
\* response of some status
ProbeFails(why) == [threw |-> TRUE, why |-> why, status |-> 0]
ProbeStatus(status) == [threw |-> FALSE, why |-> "", status |-> status]

Probes == { ProbeFails("network error"), ProbeFails("timeout"),
            ProbeStatus(200), ProbeStatus(404), ProbeStatus(503) }

\* Response.ok
ResponseOk(status) == status \in 200..299

\* mutant of checkServerConnection: no catch clause, a rejected fetch is
\* rethrown
checkServerConnectionNoCatch(probe) ==
    IF probe.threw THEN Thrown(<<probe.why>>)
    ELSE Returned(ResponseOk(probe.status))

\* checkServerConnection: try { return response.ok } catch { return false }
checkServerConnection(probe) ==
    IF probe.threw THEN Returned(FALSE)
    ELSE Returned(ResponseOk(probe.status))

\* how fetchModels settles: it throws on a response that is not ok, else it
\* returns the list, empty or not
ModelLists == {"throws", "none", "some"}

\* the server's part in Command.init; fetchModels is not called when the
\* probe found no server
NoInitEnv == [probe |-> ProbeFails("not sent"), models |-> "not asked"]

\* Command's `error` state: null, or the message shown
Null == <<"null">>
CannotConnect == <<"Cannot connect to LM Studio server.">>
NoModels == <<"No models loaded in LM Studio.">>
NoImages == <<"No images selected.">>

(***************************************************************************)
(* preprocessImage: sips converts the image into a scratch file of         *)
(* os.tmpdir(), the scratch file is read, and the finally clause removes   *)
(* it.                                                                     *)
(***************************************************************************)
\* path.join(os.tmpdir(), `raycast-lmstudio-${Date.now()}.jpg`)
TmpFile == [dir |-> "T", name |-> <<"raycast-lmstudio-", "now", ".jpg">>]

\* how execSync(sips ...) ends: the scratch file is written; sips fails
\* before it writes; sips fails and leaves a partial scratch file
SipsOutcomes == {"ok", "failed", "partial"}

\* the content sips writes for the image stored as `content`
Jpeg(content) == [jpegOf |-> content]

\* the filesystem with `content` written at path p / with path p removed
WriteFile(f, p, content) ==
    [q \in DOMAIN f \cup {p} |-> IF q = p THEN content ELSE f[q]]
Unlink(f, p) == [q \in DOMAIN f \ {p} |-> f[q]]

\* the filesystem after execSync(sips ... --out tmpFile)
AfterSips(imagePath, sips) ==
    IF sips = "failed" \/ ~existsSync(imagePath) THEN fs
    ELSE WriteFile(fs, TmpFile,
                   Jpeg(fs[CHOOSE q \in DOMAIN fs : SameFile(q, imagePath)]))

\* what the try block settles with
PreprocessTry(imagePath, sips, readOk) ==
    IF sips # "ok" \/ ~existsSync(imagePath)
    THEN Thrown(<<"Command failed: sips">>)
    ELSE IF ~readOk THEN Thrown(<<"EACCES: permission denied, open">>)
    ELSE Returned(<<"base64">>)

\* mutant of preprocessImage: the scratch file is removed after a successful
\* read only, there is no finally clause
preprocessImageNoFinally(imagePath, sips, readOk) ==
    LET settled == PreprocessTry(imagePath, sips, readOk)
        written == AfterSips(imagePath, sips)
    IN  [settled |-> settled,
         fs |-> IF ~settled.threw /\ TmpFile \in DOMAIN written
                THEN Unlink(written, TmpFile) ELSE written]

\* preprocessImage: what it settles with and the filesystem it leaves
preprocessImage(imagePath, sips, readOk) ==
    LET settled == PreprocessTry(imagePath, sips, readOk)
        written == AfterSips(imagePath, sips)
    IN  [settled |-> settled,
         fs |-> IF TmpFile \in DOMAIN written
                THEN Unlink(written, TmpFile) ELSE written]

\* mutant of renameImageCatch: the message of the exception is dropped
renameImageCatchUnknown(oldName, thrown) ==
    RenameResult(FALSE, oldName, Undefined, <<"Unknown error">>)

\* the catch clause of renameImage; every exception of the model is an Error
renameImageCatch(oldName, thrown) ==
    RenameResult(FALSE, oldName, Undefined, thrown.message)

\* renameImage when preprocessImage throws
renameImagePreprocessFailed(imagePath, thrown) ==
    renameImageCatch(BaseName(imagePath), thrown)

\* mutant of renameExt: the extension keeps its case
renameExtAsIs(imagePath) == ExtName(imagePath)

\* const ext = path.extname(imagePath).toLowerCase()
renameExt(imagePath) == ToLowerCase(ExtName(imagePath))

\* mutant of renameImage: an empty clean name is not rejected
renameImageNoEmptyCheck(imagePath, reply, renameOk) ==
    LET oldName == BaseName(imagePath)
        dir     == DirName(imagePath)
        ext     == renameExt(imagePath)
        named   == getImageName(reply)
        cleanName == sanitizeFilename(named.value)
        newPath == getUniqueFilename(dir, cleanName, ext)
        newName == BaseName(newPath)
    IN  IF named.threw
        THEN [result |-> renameImageCatch(oldName, named), fs |-> fs]
        ELSE IF oldName = newName
        THEN [result |-> RenameResult(TRUE, oldName, newName, <<"Name unchanged">>),
              fs |-> fs]
        ELSE IF ~renameOk \/ ~existsSync(imagePath)
        THEN [result |-> renameImageCatch(oldName, Thrown(<<"rename failed">>)),
              fs |-> fs]
        ELSE [result |-> RenameResult(TRUE, oldName, newName, Undefined),
              fs |-> renameSync(imagePath, newPath)]

\* renameImage from the point where fetch settles with `reply`: the returned
\* RenameResult and the filesystem it leaves.  renameOk tells whether the
\* operating system lets fs.renameSync succeed.
renameImage(imagePath, reply, renameOk) ==
    LET oldName == BaseName(imagePath)
        dir     == DirName(imagePath)
        ext     == renameExt(imagePath)
        named   == getImageName(reply)
        cleanName == sanitizeFilename(named.value)
        newPath == getUniqueFilename(dir, cleanName, ext)
        newName == BaseName(newPath)
    IN  IF named.threw
        THEN [result |-> renameImageCatch(oldName, named), fs |-> fs]
        ELSE IF cleanName = <<>>
        THEN [result |-> RenameResult(FALSE, oldName, Undefined, <<"Empty name returned">>),
              fs |-> fs]
        ELSE IF oldName = newName
        THEN [result |-> RenameResult(TRUE, oldName, newName, <<"Name unchanged">>),
              fs |-> fs]
        ELSE IF ~renameOk \/ ~existsSync(imagePath)
        THEN [result |-> renameImageCatch(oldName, Thrown(<<"rename failed">>)),
              fs |-> fs]
        ELSE [result |-> RenameResult(TRUE, oldName, newName, Undefined),
              fs |-> renameSync(imagePath, newPath)]

(***************************************************************************)
(* The command: Command.init, ModelSelectionForm.handleSubmit and          *)
(* ProcessingView.processImages.  `results` is the value the next          *)
(* functional updater passed to setResults receives as `prev`.             *)
(*                                                                         *)
(* pc: "init"       Command.init is running                                *)
(*     "error"      the blocking error view is shown                       *)
(*     "form"       the model selection form is shown                      *)
(*     "loop"       processImages is at the head of its for loop           *)
(*     "awaitModel" renameImage awaits the completion request              *)
(*     "resolved"   renameImage has returned, processImages resumes        *)
(*     "done"       the completion toast has been shown                    *)
(***************************************************************************)
Init ==
    /\ pc = "init"
    /\ foldCase \in BOOLEAN
    /\ fs0 \in {[p \in S |-> p] : S \in SUBSET FileUniverse}
    /\ fs = fs0
    /\ finderItems \in DistinctSeqs(DOMAIN fs0, MaxSelected)
    /\ error = Null
    /\ images = <<>>
    /\ results = <<>>
    /\ i = 0
    /\ successCount = 0
    /\ env = NoEnv
    /\ result = NoResult
    /\ outcomes = <<>>
    /\ toast = NoToast
    /\ initEnv = NoInitEnv
    /\ nameOut = NotNamed
    /\ sanIn = <<>>
    /\ sanOut = <<>>

\* the flatMap of Command.init: the ImageFile of every selected image
ImageFiles(items) ==
    LET picked == SelectSeq(items, isImageFile)
    IN  [k \in DOMAIN picked |-> [path |-> picked[k], name |-> BaseName(picked[k])]]

\* mutant of CommandInit: an empty list of images is not checked, the form
\* is shown for it
CommandInitNoImageCheck ==
    /\ pc = "init"
    /\ \E probe \in Probes :
         LET connection == checkServerConnection(probe)
             connected  == ~connection.threw /\ connection.value
         IN  \E models \in IF connected THEN ModelLists ELSE {"not asked"} :
               /\ initEnv' = [probe |-> probe, models |-> models]
               /\ IF connection.threw
                  THEN /\ error' = connection.message
                       /\ pc' = "error"
                       /\ images' = images
                  ELSE IF ~connection.value
                  THEN /\ error' = CannotConnect
                       /\ pc' = "error"
                       /\ images' = images
                  ELSE IF models = "throws"
                  THEN /\ error' = <<"Failed to fetch models: ", "Internal Server Error">>
                       /\ pc' = "error"
                       /\ images' = images
                  ELSE IF models = "none"
                  THEN /\ error' = NoModels
                       /\ pc' = "error"
                       /\ images' = images
                  ELSE /\ images' = ImageFiles(finderItems)
                       /\ pc' = "form"
                       /\ error' = error
    /\ UNCHANGED <<foldCase, fs, fs0, finderItems, results, i, successCount,
                   env, result, outcomes, toast, nameOut, sanIn, sanOut>>

\* Command.init: the probe is how the request of checkServerConnection
\* settles, models how fetchModels settles.  An exception anywhere is
\* caught and its message becomes the error.
CommandInit ==
    /\ pc = "init"
    /\ \E probe \in Probes :
         LET connection == checkServerConnection(probe)
             connected  == ~connection.threw /\ connection.value
         IN  \E models \in IF connected THEN ModelLists ELSE {"not asked"} :
               /\ initEnv' = [probe |-> probe, models |-> models]
               /\ IF connection.threw
                  THEN /\ error' = connection.message
                       /\ pc' = "error"
                       /\ images' = images
                  ELSE IF ~connection.value
                  THEN /\ error' = CannotConnect
                       /\ pc' = "error"
                       /\ images' = images
                  ELSE IF models = "throws"
                  THEN /\ error' = <<"Failed to fetch models: ", "Internal Server Error">>
                       /\ pc' = "error"
                       /\ images' = images
                  ELSE IF models = "none"
                  THEN /\ error' = NoModels
                       /\ pc' = "error"
                       /\ images' = images
                  ELSE IF Len(ImageFiles(finderItems)) = 0
                  THEN /\ error' = NoImages
                       /\ pc' = "error"
                       /\ images' = images
                  ELSE /\ images' = ImageFiles(finderItems)
                       /\ pc' = "form"
                       /\ error' = error
    /\ UNCHANGED <<foldCase, fs, fs0, finderItems, results, i, successCount,
                   env, result, outcomes, toast, nameOut, sanIn, sanOut>>

\* handleSubmit pushes ProcessingView: useState's initial results, and the
\* effect starts processImages
HandleSubmit ==
    /\ pc = "form"
    /\ results' = [k \in DOMAIN images |->
                      ProcessingResult(images[k].name, Undefined, "pending", Undefined)]
    /\ i' = 0
    /\ successCount' = 0
    /\ pc' = "loop"
    /\ UNCHANGED <<foldCase, fs, fs0, finderItems, error, images, env, result,
                   outcomes, toast, sanIn, sanOut,
                   initEnv, nameOut>>

\* mutant of StartTask: the update is computed from the results captured
\* when the effect started (all pending), not from the current ones
StartTaskStale ==
    /\ pc = "loop"
    /\ i < Len(images)
    /\ results' = [k \in DOMAIN results |->
                      ProcessingResult(images[k].name, Undefined,
                                       IF k = i + 1 THEN "processing" ELSE "pending",
                                       Undefined)]
    /\ \E sips \in SipsOutcomes :
       \E readOk \in IF sips = "ok" THEN BOOLEAN ELSE {FALSE} :
         LET p == preprocessImage(images[i + 1].path, sips, readOk)
         IN  /\ env' = [NoEnv EXCEPT !.preprocessOk = ~p.settled.threw,
                                     !.sips = sips, !.readOk = readOk]
             /\ fs' = p.fs
             /\ IF ~p.settled.threw
                THEN /\ pc' = "awaitModel"
                     /\ result' = NoResult
                ELSE /\ pc' = "resolved"
                     /\ result' = renameImagePreprocessFailed(images[i + 1].path,
                                                              p.settled)
    /\ UNCHANGED <<foldCase, fs0, finderItems, error, images, i,
                   successCount, outcomes, toast, sanIn, sanOut,
                   initEnv, nameOut>>

\* mutant of StartTask: every pending entry is marked processing
StartTaskAll ==
    /\ pc = "loop"
    /\ i < Len(images)
    /\ results' = [k \in DOMAIN results |->
                      IF results[k].status = "pending"
                      THEN [results[k] EXCEPT !.status = "processing"]
                      ELSE results[k]]
    /\ \E sips \in SipsOutcomes :
       \E readOk \in IF sips = "ok" THEN BOOLEAN ELSE {FALSE} :
         LET p == preprocessImage(images[i + 1].path, sips, readOk)
         IN  /\ env' = [NoEnv EXCEPT !.preprocessOk = ~p.settled.threw,
                                     !.sips = sips, !.readOk = readOk]
             /\ fs' = p.fs
             /\ IF ~p.settled.threw
                THEN /\ pc' = "awaitModel"
                     /\ result' = NoResult
                ELSE /\ pc' = "resolved"
                     /\ result' = renameImagePreprocessFailed(images[i + 1].path,
                                                              p.settled)
    /\ UNCHANGED <<foldCase, fs0, finderItems, error, images, i,
                   successCount, outcomes, toast, sanIn, sanOut,
                   initEnv, nameOut>>

\* one pass of the loop up to the first await: setResults(processing), then
\* renameImage runs preprocessImage (execSync) and either fails there or
\* sends the completion request
StartTask ==
    /\ pc = "loop"
    /\ i < Len(images)
    /\ results' = [results EXCEPT ![i + 1].status = "processing"]
    /\ \E sips \in SipsOutcomes :
       \E readOk \in IF sips = "ok" THEN BOOLEAN ELSE {FALSE} :
         LET p == preprocessImage(images[i + 1].path, sips, readOk)
         IN  /\ env' = [NoEnv EXCEPT !.preprocessOk = ~p.settled.threw,
                                     !.sips = sips, !.readOk = readOk]
             /\ fs' = p.fs
             /\ IF ~p.settled.threw
                THEN /\ pc' = "awaitModel"
                     /\ result' = NoResult
                ELSE /\ pc' = "resolved"
                     /\ result' = renameImagePreprocessFailed(images[i + 1].path,
                                                              p.settled)
    /\ UNCHANGED <<foldCase, fs0, finderItems, error, images, i,
                   successCount, outcomes, toast, sanIn, sanOut,
                   initEnv, nameOut>>

\* renameImage gets as far as fs.renameSync and the system would allow it:
\* only then does the system have a say in the outcome
ReachesRename(imagePath, reply) == renameImage(imagePath, reply, TRUE).fs # fs

\* the completion request settles and renameImage runs to its return; the
\* system's answer to the rename is drawn when renameImage asks for one
ModelResponse ==
    /\ pc = "awaitModel"
    /\ \E reply \in Replies :
       \E renameOk \in IF ReachesRename(images[i + 1].path, reply)
                       THEN BOOLEAN ELSE {FALSE} :
         LET r == renameImage(images[i + 1].path, reply, renameOk)
         IN  /\ env' = [env EXCEPT !.reply = reply, !.renameOk = renameOk]
             /\ result' = r.result
             /\ fs' = r.fs
    /\ pc' = "resolved"
    /\ UNCHANGED <<foldCase, fs0, finderItems, error, images, results, i,
                   successCount, outcomes, toast, sanIn, sanOut,
                   initEnv, nameOut>>

\* mutant of TerminalResult: the "Name unchanged" note is not looked at
TerminalResultNoSkip(r) ==
    IF r.success
    THEN ProcessingResult(r.oldName, r.newName, "success", Undefined)
    ELSE ProcessingResult(r.oldName, Undefined, "error", r.error)

\* the updater of the second setResults
TerminalResult(r) ==
    IF r.success
    THEN IF r.error = <<"Name unchanged">>
         THEN ProcessingResult(r.oldName, r.newName, "skipped", <<"Name unchanged">>)
         ELSE ProcessingResult(r.oldName, r.newName, "success", Undefined)
    ELSE ProcessingResult(r.oldName, Undefined, "error", r.error)

\* mutant of TaskDone: the loop index advances by two, a task is skipped
TaskDoneSkip ==
    /\ pc = "resolved"
    /\ successCount' = IF result.success THEN successCount + 1 ELSE successCount
    /\ results' = [results EXCEPT ![i + 1] = TerminalResult(result)]
    /\ outcomes' = Append(outcomes, result)
    /\ result' = NoResult
    /\ i' = i + 2
    /\ pc' = "loop"
    /\ UNCHANGED <<foldCase, fs, fs0, finderItems, error, images, env, toast,
                   sanIn, sanOut,
                   initEnv, nameOut>>

\* mutant of TaskDone: a failed task ends the loop
TaskDoneAbort ==
    /\ pc = "resolved"
    /\ successCount' = IF result.success THEN successCount + 1 ELSE successCount
    /\ results' = [results EXCEPT ![i + 1] = TerminalResult(result)]
    /\ outcomes' = Append(outcomes, result)
    /\ result' = NoResult
    /\ i' = IF result.success THEN i + 1 ELSE Len(images)
    /\ pc' = "loop"
    /\ UNCHANGED <<foldCase, fs, fs0, finderItems, error, images, env, toast,
                   sanIn, sanOut,
                   initEnv, nameOut>>

\* mutant of TaskDone: every task is counted, failed or not
TaskDoneCountAll ==
    /\ pc = "resolved"
    /\ successCount' = successCount + 1
    /\ results' = [results EXCEPT ![i + 1] = TerminalResult(result)]
    /\ outcomes' = Append(outcomes, result)
    /\ result' = NoResult
    /\ i' = i + 1
    /\ pc' = "loop"
    /\ UNCHANGED <<foldCase, fs, fs0, finderItems, error, images, env, toast,
                   sanIn, sanOut,
                   initEnv, nameOut>>

\* processImages resumes with renameImage's result: the tally, the second
\* setResults, and i++
TaskDone ==
    /\ pc = "resolved"
    /\ successCount' = IF result.success THEN successCount + 1 ELSE successCount
    /\ results' = [results EXCEPT ![i + 1] = TerminalResult(result)]
    /\ outcomes' = Append(outcomes, result)
    /\ result' = NoResult
    /\ i' = i + 1
    /\ pc' = "loop"
    /\ UNCHANGED <<foldCase, fs, fs0, finderItems, error, images, env, toast,
                   sanIn, sanOut,
                   initEnv, nameOut>>

\* mutant of Finish: the loop condition is i <= images.length, the loop is
\* left one index too late
FinishOffByOne ==
    /\ pc = "loop"
    /\ ~(i <= Len(images))
    /\ toast' = Tally(successCount, Len(images))
    /\ pc' = "done"
    /\ UNCHANGED <<foldCase, fs, fs0, finderItems, error, images, results, i,
                   successCount, env, result, outcomes, sanIn, sanOut,
                   initEnv, nameOut>>

\* the loop is over: setIsProcessing(false) and the completion toast
Finish ==
    /\ pc = "loop"
    /\ ~(i < Len(images))
    /\ toast' = Tally(successCount, Len(images))
    /\ pc' = "done"
    /\ UNCHANGED <<foldCase, fs, fs0, finderItems, error, images, results, i,
                   successCount, env, result, outcomes, sanIn, sanOut,
                   initEnv, nameOut>>

Next ==
    \/ CommandInit
    \/ HandleSubmit
    \/ StartTask
    \/ ModelResponse
    \/ TaskDone
    \/ Finish

Spec == Init /\ [][Next]_vars

\* The batch under fair scheduling.  Once processImages runs, its
\* synchronous code up to the next await always runs (StartTask), a
\* continuation whose promise has settled is always resumed (TaskDone,
\* Finish), and the completion request eventually settles (ModelResponse):
\* the server is assumed to answer or fail.  At most one of the four steps
\* is enabled at a time, so they share one fairness condition.  Nothing is
\* assumed of Command.init or of the user submitting the form.
BatchStep ==
    \/ StartTask
    \/ ModelResponse
    \/ TaskDone
    \/ Finish

BatchFairness == WF_vars(BatchStep)

\* the initial states whose selection is short enough to follow every batch
\* to its end
InitLive == Init /\ Len(finderItems) <= MaxLiveSelected

LiveSpec == InitLive /\ [][Next]_vars /\ BatchFairness

(***************************************************************************)
(* sanitizeFilename on its own: every input is a run of padding between a  *)
(* short head and a short tail, so that inputs below, at and beyond the    *)
(* 100-character limit are all applied.                                    *)
(***************************************************************************)
SanAlphabet == {"a", " ", "!", "\t", "_"}

RECURSIVE SeqsUpTo(_, _)
SeqsUpTo(S, n) ==
    IF n = 0 THEN {<<>>}
    ELSE LET shorter == SeqsUpTo(S, n - 1)
         IN  shorter \cup {Append(q, x) : q \in shorter, x \in S}

Pad(n) == [k \in 1..n |-> "a"]

SanInputs ==
    {h \o Pad(n) \o t : h \in SeqsUpTo(SanAlphabet, 1),
                        n \in {0, SanitizeMax - 2, SanitizeMax - 1, SanitizeMax},
                        t \in SeqsUpTo(SanAlphabet, MaxTail)}

InitSanitize ==
    /\ pc = "sanitize"
    /\ sanIn \in SanInputs
    /\ sanOut = <<>>
    /\ foldCase = FALSE
    /\ fs0 = <<>>
    /\ fs = fs0
    /\ finderItems = <<>>
    /\ error = Null
    /\ images = <<>>
    /\ results = <<>>
    /\ i = 0
    /\ successCount = 0
    /\ env = NoEnv
    /\ result = NoResult
    /\ outcomes = <<>>
    /\ toast = NoToast
    /\ initEnv = NoInitEnv
    /\ nameOut = NotNamed

ApplySanitize ==
    /\ pc = "sanitize"
    /\ sanOut' = sanitizeFilename(sanIn)
    /\ pc' = "sanitized"
    /\ UNCHANGED <<foldCase, fs, fs0, finderItems, error, images, results, i,
                   successCount, env, result, outcomes, toast, sanIn,
                   initEnv, nameOut>>

NextSanitize == ApplySanitize

SpecSanitize == InitSanitize /\ [][NextSanitize]_vars

(***************************************************************************)
(* getImageName on its own, from the point where fetch settles: every      *)
(* combination of status, error field and first-choice content is applied. *)
(***************************************************************************)
NameStatuses == { <<TRUE, "OK">>, <<TRUE, "Created">>,
                  <<FALSE, "Not Found">>, <<FALSE, "Internal Server Error">> }
NameErrors == { Undefined, <<"model not loaded">> }
NameContents == { Undefined, SuggestEmpty, SuggestBlank, SuggestCat,
                  SuggestCat1, SuggestJunk, <<"\t","a"," "," ","b","\n">> }

NameReplies ==
    {ReplyThrow} \cup
    { HttpReply(st[1], st[2], err, content) :
        st \in NameStatuses, err \in NameErrors, content \in NameContents }

InitGetImageName ==
    /\ pc = "fetch"
    /\ env \in {[NoEnv EXCEPT !.preprocessOk = TRUE, !.sips = "ok",
                              !.readOk = TRUE, !.reply = reply] :
                    reply \in NameReplies}
    /\ nameOut = NotNamed
    /\ foldCase = FALSE
    /\ fs0 = <<>>
    /\ fs = fs0
    /\ finderItems = <<>>
    /\ error = Null
    /\ images = <<>>
    /\ results = <<>>
    /\ i = 0
    /\ successCount = 0
    /\ result = NoResult
    /\ outcomes = <<>>
    /\ toast = NoToast
    /\ initEnv = NoInitEnv
    /\ sanIn = <<>>
    /\ sanOut = <<>>

ApplyGetImageName ==
    /\ pc = "fetch"
    /\ nameOut' = getImageName(env.reply)
    /\ pc' = "named"
    /\ UNCHANGED <<foldCase, fs, fs0, finderItems, error, images, results, i,
                   successCount, env, result, outcomes, toast, initEnv,
                   sanIn, sanOut>>

NextGetImageName == ApplyGetImageName

SpecGetImageName == InitGetImageName /\ [][NextGetImageName]_vars

(***************************************************************************)
(* The end of one task on its own: processImages resumes with a            *)
(* RenameResult of any of the three shapes renameImage returns.  The       *)
(* "Name unchanged" result is returned when the image is no longer at its  *)
(* path when getUniqueFilename runs and the suggestion is its own name.    *)
(***************************************************************************)
OutcomeMessages ==
    { <<"fetch failed">>,
      <<"API request failed: ", "Internal Server Error">>,
      <<"LM Studio error: ", "model not loaded">>,
      <<"No name suggestion returned">>,
      <<"Empty name returned">>,
      <<"rename failed">>,
      <<"Command failed: sips">>,
      <<"EACCES: permission denied, open">> }

OutcomeNames ==
    { CatJpg.name, Cat1Jpg.name,
      <<"c","a","t","_","1","_","1",".","j","p","g">>,
      <<"d","o","g",".","j","p","g">> }

\* the results renameImage can return for the image at imagePath
OutcomeSamples(imagePath) ==
    LET oldName == BaseName(imagePath)
    IN  {RenameResult(FALSE, oldName, Undefined, msg) : msg \in OutcomeMessages}
        \cup {RenameResult(TRUE, oldName, newName, Undefined) :
                newName \in OutcomeNames \ {oldName}}
        \cup {RenameResult(TRUE, oldName, oldName, <<"Name unchanged">>)}

InitOutcome ==
    /\ pc = "resolved"
    /\ finderItems \in {<<p>> : p \in {CatJpg, Cat1Jpg, CatUpper}}
    /\ images = ImageFiles(finderItems)
    /\ results = [k \in DOMAIN images |->
                    ProcessingResult(images[k].name, Undefined, "processing", Undefined)]
    /\ result \in OutcomeSamples(images[1].path)
    /\ i = 0
    /\ successCount = 0
    /\ outcomes = <<>>
    /\ toast = NoToast
    /\ env = NoEnv
    /\ initEnv = [probe |-> ProbeStatus(200), models |-> "some"]
    /\ foldCase = FALSE
    /\ fs0 = <<>>
    /\ fs = fs0
    /\ error = Null
    /\ nameOut = NotNamed
    /\ sanIn = <<>>
    /\ sanOut = <<>>

NextOutcome ==
    \/ TaskDone
    \/ Finish

SpecOutcome == InitOutcome /\ [][NextOutcome]_vars

(***************************************************************************)
(* Properties.                                                             *)
(***************************************************************************)
TerminalStatus == {"success", "skipped", "error"}

\* the task in progress
CurrentPath == images[i + 1].path

\* filesystem g is filesystem f with the file at `old` moved to the new
\* path `new`, and nothing else changed
Moved(f, g, old, new) ==
    /\ old \in DOMAIN f
    /\ new \notin DOMAIN f
    /\ DOMAIN g = (DOMAIN f \ {old}) \cup {new}
    /\ g[new] = f[old]
    /\ \A q \in DOMAIN f \ {old} : g[q] = f[q]

\* renameImage has just returned: the step that takes pc to "resolved"
Resolves == pc # "resolved" /\ pc' = "resolved"

\* C1: whenever renameImage returns, the filesystem has changed if and only
\* if the outcome is success with newName # oldName, and then the change is
\* exactly the move of the task's file to newName in its directory; when the
\* outcome is a failure the filesystem is as it was and the task's file is
\* at its original path with its original content.
C1_RenamedIffSuccess ==
    [][Resolves =>
        LET renamed == result'.success /\ result'.newName # result'.oldName
        IN  /\ (fs' # fs) <=> renamed
            /\ renamed => Moved(fs, fs', CurrentPath,
                                PathJoin(DirName(CurrentPath), result'.newName))
            /\ ~result'.success =>
                   /\ fs' = fs
                   /\ CurrentPath \in DOMAIN fs'
                   /\ fs'[CurrentPath] = fs0[CurrentPath]]_vars

\* C1 witness: a task has been renamed after an earlier task of the batch
\* failed
C1_Witness ==
    /\ pc = "resolved"
    /\ result.success
    /\ result.newName # result.oldName
    /\ CurrentPath \notin DOMAIN fs
    /\ \E k \in DOMAIN outcomes : ~outcomes[k].success

\* C2: when processImages has finished, results and outcomes have one entry
\* per task, entry k is the terminal outcome of task k (the k-th selected
\* image), in order.
C2_OneOutcomePerTask ==
    pc = "done" =>
        /\ images = ImageFiles(finderItems)
        /\ Len(results) = Len(images)
        /\ Len(outcomes) = Len(images)
        /\ \A k \in DOMAIN images :
             /\ outcomes[k].oldName = BaseName(images[k].path)
             /\ results[k].oldName = outcomes[k].oldName
             /\ results[k].status \in TerminalStatus
             /\ (results[k].status = "error") <=> ~outcomes[k].success
             /\ results[k].newName = outcomes[k].newName
             /\ ~outcomes[k].success => results[k].error = outcomes[k].error

\* C2 witness: a batch of three tasks has finished with successes and
\* failures
C2_Witness ==
    /\ pc = "done"
    /\ Len(images) = 3
    /\ \E j, k \in DOMAIN outcomes : outcomes[j].success /\ ~outcomes[k].success

\* the environment let every step of the task succeed: the conversion, the
\* request (a 2xx reply without error field whose content holds a
\* character that survives sanitizing) and the rename
OwnStepsSucceed(e) ==
    /\ e.preprocessOk
    /\ ~e.reply.threw
    /\ e.reply.ok
    /\ e.reply.error = Undefined
    /\ e.reply.content # Undefined
    /\ \E k \in DOMAIN e.reply.content :
         IsAllowed(e.reply.content[k]) /\ ~IsSpace(e.reply.content[k])
    /\ e.renameOk

\* C3: whatever happened to earlier tasks, a task's outcome is an error
\* exactly when one of its own steps failed; the loop always goes on to the
\* next task, and when it ends every task has an outcome.
C3_FailureIsLocal ==
    /\ pc = "resolved" => (result.success <=> OwnStepsSucceed(env))
    /\ pc \in {"loop", "awaitModel", "resolved"} => ENABLED Next
    /\ pc = "done" => Len(outcomes) = Len(images)

\* C3 witness: the first task failed and the two tasks after it succeeded
C3_Witness ==
    /\ pc = "done"
    /\ Len(outcomes) = 3
    /\ ~outcomes[1].success
    /\ outcomes[2].success
    /\ outcomes[3].success

\* the name of a file without its extension
Stem(p) == SubSeq(p.name, 1, Len(p.name) - Len(ExtName(p)))

\* the reply carries a suggestion: 2xx, no error field, content present
Suggests(reply) ==
    /\ ~reply.threw
    /\ reply.ok
    /\ reply.error = Undefined
    /\ reply.content # Undefined

Cat == <<"c","a","t">>
Cat_1 == <<"c","a","t","_","1">>
DotJpg == <<".","j","p","g">>
DotTxt == <<".","t","x","t">>

\* C4: when the sanitized suggestion equals the current base name of the
\* task's file, renameImage returns success with newName = oldName and the
\* file is still at its path.  Stated for the plainest case: the extension
\* is already lowercase and the system would allow a rename.  The code
\* does not satisfy this: getUniqueFilename finds the task's own file at
\* the first candidate and the file is moved to a counter-suffixed name.
C4_Idempotent ==
    (/\ pc = "resolved"
     /\ env.preprocessOk
     /\ env.renameOk
     /\ Suggests(env.reply)
     /\ ExtName(CurrentPath) = ToLowerCase(ExtName(CurrentPath))
     /\ sanitizeFilename(Trim(env.reply.content)) = Stem(CurrentPath))
    => (/\ result.success
        /\ result.newName = result.oldName
        /\ CurrentPath \in DOMAIN fs)

\* the path task k's file was moved to
FinalPath(k) == PathJoin(DirName(images[k].path), outcomes[k].newName)

\* C5: every rename goes to a path that does not exist when the rename is
\* made and that no earlier task of the run ended at, and it removes no
\* other file.
C5_FreshDestination ==
    [][fs' # fs =>
        LET dest == PathJoin(DirName(CurrentPath), result'.newName)
        IN  /\ ~existsSync(dest)
            /\ \A k \in DOMAIN outcomes :
                 outcomes[k].success => ~SameFile(FinalPath(k), dest)
            /\ Cardinality(DOMAIN fs') = Cardinality(DOMAIN fs)]_vars

\* C5 witness: cat.jpg and cat_1.jpg, in one directory, were both given the
\* name "cat": the first went to cat_2.jpg, the second to the cat.jpg the
\* first rename had freed
C5_Witness ==
    /\ pc = "done"
    /\ Len(images) >= 2
    /\ images[1].path = CatJpg
    /\ images[2].path = Cat1Jpg
    /\ outcomes[1].success
    /\ outcomes[1].newName = Cat \o <<"_","2">> \o DotJpg
    /\ outcomes[2].success
    /\ outcomes[2].newName = Cat \o DotJpg

\* C6: in every filesystem the command reaches, for every directory, base
\* name and extension, getUniqueFilename returns dir/baseName+ext when that
\* does not exist, and otherwise dir/baseName_k+ext for the smallest k >= 1
\* that does not exist; the returned path never exists.  (The filesystem
\* changes only on the step to "resolved", so the states named here hold
\* every filesystem the command reaches.)
C6_UniquePath ==
    pc \in {"init", "resolved"} =>
    \A dir \in {"D", "E"}, baseName \in {Cat, Cat_1}, ext \in {DotJpg, DotTxt} :
        LET got == getUniqueFilename(dir, baseName, ext)
            Suffixed(k) == PathJoin(dir, baseName \o <<"_">> \o ToStr(k) \o ext)
        IN  /\ ~existsSync(got)
            /\ IF ~existsSync(PathJoin(dir, baseName \o ext))
               THEN got = PathJoin(dir, baseName \o ext)
               ELSE \E k \in 1..Cardinality(DOMAIN fs) :
                       /\ got = Suffixed(k)
                       /\ \A j \in 1..(k - 1) : existsSync(Suffixed(j))

\* C6 witness: with cat.jpg and cat_1.jpg present, renameImage was given
\* cat_2.jpg for cat.jpg
C6_Witness ==
    /\ pc = "resolved"
    /\ {CatJpg, Cat1Jpg} \subseteq DOMAIN fs0
    /\ CurrentPath = CatJpg
    /\ i = 0
    /\ result.success
    /\ result.newName = Cat \o <<"_","2">> \o DotJpg

\* C7: the output of sanitizeFilename holds only characters of
\* [A-Za-z0-9 _-], is at most 100 long, has no two consecutive spaces and
\* neither starts nor ends with a space.  The code does not satisfy the
\* last part: it trims before it truncates, and a space at position 100 of
\* a longer string ends the output.
C7_SanitizeOutput ==
    pc = "sanitized" =>
        /\ \A k \in DOMAIN sanOut : IsAllowed(sanOut[k])
        /\ Len(sanOut) <= SanitizeMax
        /\ \A k \in 1..(Len(sanOut) - 1) : ~(sanOut[k] = " " /\ sanOut[k + 1] = " ")
        /\ sanOut # <<>> => sanOut[1] # " " /\ sanOut[Len(sanOut)] # " "

\* C8: every entry of results starts pending, and an entry's status changes
\* only from pending to processing or from processing to a terminal
\* status.
C8_StatusForward ==
    [][/\ (results = <<>> /\ results' # <<>>) =>
             \A k \in DOMAIN results' : results'[k].status = "pending"
       /\ results # <<>> =>
             /\ DOMAIN results' = DOMAIN results
             /\ \A k \in DOMAIN results :
                  \/ results'[k].status = results[k].status
                  \/ /\ results[k].status = "pending"
                     /\ results'[k].status = "processing"
                  \/ /\ results[k].status = "processing"
                     /\ results'[k].status \in TerminalStatus]_vars

\* C8 witness: of three tasks the first is terminal, the second processing,
\* the third pending
C8_Witness ==
    /\ Len(results) = 3
    /\ results[1].status \in TerminalStatus
    /\ results[2].status = "processing"
    /\ results[3].status = "pending"

\* C9: at most one task is processing; a task has left pending only when
\* every task before it is terminal; while a request or a rename is in
\* flight, the processing task is the one of the loop index.
C9_OneAtATime ==
    /\ Cardinality({k \in DOMAIN results : results[k].status = "processing"}) <= 1
    /\ \A k \in DOMAIN results :
         results[k].status # "pending" =>
             \A j \in 1..(k - 1) : results[j].status \in TerminalStatus
    /\ pc \in {"awaitModel", "resolved"} =>
         {k \in DOMAIN results : results[k].status = "processing"} = {i + 1}

\* C9 witness: the request of the third task is in flight after the first
\* two tasks ended
C9_Witness ==
    /\ pc = "awaitModel"
    /\ i = 2
    /\ results[1].status \in TerminalStatus
    /\ results[2].status \in TerminalStatus
    /\ results[3].status = "processing"

EmptyNameMessage(content) ==
    IF Trim(content) = <<>> THEN <<"No name suggestion returned">>
    ELSE <<"Empty name returned">>

\* the task that has just resolved got a suggestion that sanitizes to ""
SanitizesToEmpty(reply) ==
    Suggests(reply) /\ sanitizeFilename(reply.content) = <<>>

\* C11 as stated: when the model's suggestion sanitizes to the empty string,
\* an empty suggestion included, the outcome is {success:false, oldName,
\* error:"Empty name returned"} and no file is renamed.
C11_EmptyNameReturned ==
    [][Resolves /\ SanitizesToEmpty(env'.reply) =>
        /\ result' = RenameResult(FALSE, BaseName(CurrentPath), Undefined,
                                  <<"Empty name returned">>)
        /\ fs' = fs]_vars

\* C11 amended: when the model's suggestion sanitizes to the empty string the
\* outcome is an error with oldName and no newName, and no file is renamed;
\* the message is "Empty name returned" when the suggestion holds a character
\* that is not white space, and "No name suggestion returned" when it is
\* empty or white space only.
C11_EmptyNameIsError ==
    [][Resolves /\ SanitizesToEmpty(env'.reply) =>
        /\ result' = RenameResult(FALSE, BaseName(CurrentPath), Undefined,
                                  EmptyNameMessage(env'.reply.content))
        /\ fs' = fs]_vars

\* C11 witness: a task whose suggestion "?!" sanitized to "" has ended with
\* "Empty name returned"
C11_Witness ==
    /\ pc = "resolved"
    /\ env.reply.content = SuggestJunk
    /\ result.error = <<"Empty name returned">>
    /\ ~result.success

\* the probe of Command.init got a response with a 2xx status
Is2xx(probe) == ~probe.threw /\ probe.status >= 200 /\ probe.status <= 299

\* no selected path has the extension of an image
NoQualifyingImage == \A k \in DOMAIN finderItems : ~isImageFile(finderItems[k])

\* the message of the precondition that fails first
BlockingMessage ==
    IF ~Is2xx(initEnv.probe) THEN CannotConnect
    ELSE IF initEnv.models = "throws"
    THEN <<"Failed to fetch models: ", "Internal Server Error">>
    ELSE IF initEnv.models = "none" THEN NoModels
    ELSE NoImages

\* C12: once Command.init has run with the server unreachable, or with an
\* empty model list, or with no qualifying image selected, the command shows
\* one blocking error, the message of the first precondition that failed,
\* and stays there: there is no task, no entry has left pending, no
\* completion request has been sent and the filesystem is as it was.
C12_BlockingError ==
    pc # "init" /\ ( \/ ~Is2xx(initEnv.probe)
                     \/ initEnv.models = "none"
                     \/ NoQualifyingImage ) =>
        /\ pc = "error"
        /\ error = BlockingMessage
        /\ images = <<>>
        /\ results = <<>>
        /\ outcomes = <<>>
        /\ env = NoEnv
        /\ result = NoResult
        /\ toast = NoToast
        /\ fs = fs0

\* C12 witness: the server answered and has a model, files were selected,
\* none of them is an image, and the error view is shown
C12_Witness ==
    /\ pc = "error"
    /\ Is2xx(initEnv.probe)
    /\ initEnv.models = "some"
    /\ finderItems # <<>>
    /\ error = NoImages

\* the ways the probe can settle, with the statuses at the edges of 2xx
ProbeTable ==
    Probes \cup {ProbeStatus(n) : n \in {199, 200, 204, 299, 300, 500}}

\* on every probe of the table checkServerConnection returns, and returns
\* whether the response was 2xx
ProbeTableHolds ==
    \A probe \in ProbeTable :
        checkServerConnection(probe) = Returned(Is2xx(probe))

\* C13: checkServerConnection never throws; it returns true when the probe
\* got a 2xx response and false when fetch rejected (network error, timeout)
\* or the status is not 2xx.  In Command.init a probe that is not 2xx always
\* ends in the "Cannot connect" error, never in the message of an exception.
C13_ProbeNeverThrows ==
    /\ ProbeTableHolds
    /\ pc # "init" => /\ ~Is2xx(initEnv.probe) <=> error = CannotConnect
                      /\ Is2xx(initEnv.probe) => initEnv.models \in ModelLists
                      /\ ~Is2xx(initEnv.probe) => initEnv.models = "not asked"

\* C13 witness: the probe timed out and Command.init shows "Cannot connect"
C13_Witness ==
    /\ pc = "error"
    /\ initEnv.probe = ProbeFails("timeout")
    /\ error = CannotConnect

\* the first-choice content is missing or has white space only
Blank(content) ==
    content = Undefined \/ \A k \in DOMAIN content : IsSpace(content[k])

\* v is c without its leading and trailing white space, and is not empty
IsTrimOf(v, c) ==
    /\ v # <<>>
    /\ ~IsSpace(v[1])
    /\ ~IsSpace(v[Len(v)])
    /\ \E a \in 0..Len(c) :
         /\ a + Len(v) <= Len(c)
         /\ SubSeq(c, a + 1, a + Len(v)) = v
         /\ \A k \in 1..a : IsSpace(c[k])
         /\ \A k \in (a + Len(v) + 1)..Len(c) : IsSpace(c[k])

\* C14: getImageName classifies the settled request in a fixed order: a
\* rejected fetch or a response that is not 2xx fails with the request's
\* error, whatever the body holds; otherwise a body with an error field fails
\* with "LM Studio error", whatever its choices hold; otherwise a missing or
\* blank first-choice content fails with "No name suggestion returned";
\* otherwise the content is returned with its leading and trailing white
\* space removed and every other character kept.
C14_ClassificationOrder ==
    pc = "named" =>
        LET r == env.reply
        IN  IF r.threw THEN nameOut = Thrown(<<"fetch failed">>)
            ELSE IF ~r.ok
            THEN nameOut = Thrown(<<"API request failed: ", r.statusText>>)
            ELSE IF r.error # Undefined
            THEN nameOut = Thrown(<<"LM Studio error: ">> \o r.error)
            ELSE IF Blank(r.content)
            THEN nameOut = Thrown(<<"No name suggestion returned">>)
            ELSE /\ ~nameOut.threw
                 /\ IsTrimOf(nameOut.value, r.content)

\* C14 witness: a 2xx response whose body has both an error field and a
\* usable first choice has been classified as an API error
C14_Witness ==
    /\ pc = "named"
    /\ env.reply.ok
    /\ env.reply.error # Undefined
    /\ env.reply.content = SuggestCat
    /\ nameOut = Thrown(<<"LM Studio error: ", "model not loaded">>)

\* preprocessImage has just run: the step of the loop up to the first await
Preprocesses == pc = "loop" /\ pc' \in {"awaitModel", "resolved"}

\* C15: when preprocessImage has exited, whether sips converted the image,
\* failed before writing, failed leaving a partial file, or the read of the
\* converted file failed, the scratch file does not exist, nothing is left
\* in the scratch directory, and the source image and every other file are
\* as they were.
C15_ScratchRemoved ==
    [][Preprocesses =>
        /\ TmpFile \notin DOMAIN fs'
        /\ \A q \in DOMAIN fs' : q.dir # TmpFile.dir
        /\ CurrentPath \in DOMAIN fs'
        /\ fs'[CurrentPath] = fs[CurrentPath]
        /\ fs' = fs]_vars

\* C15 witness: sips failed after it had written a partial scratch file, the
\* task has ended with the error of sips and the scratch file is gone
C15_Witness ==
    /\ pc = "resolved"
    /\ env.sips = "partial"
    /\ ~env.preprocessOk
    /\ result.error = <<"Command failed: sips">>
    /\ TmpFile \notin DOMAIN fs

\* the message of the exception preprocessImage threw
PreprocessMessage(e) ==
    IF e.sips # "ok" THEN <<"Command failed: sips">>
    ELSE <<"EACCES: permission denied, open">>

\* the completion request is sent: renameImage reaches its await of fetch
SendsRequest == pc # "awaitModel" /\ pc' = "awaitModel"

\* C16: the steps of a task run in the order preprocess, model request,
\* sanitize, unique path, rename, and the first failure ends the task.  The
\* request is sent only by a task whose preprocess has just succeeded.  A
\* task whose preprocess failed resolves without a request having been sent,
\* with the message of preprocessImage.  A task whose request failed resolves
\* without a rename, with the message getImageName threw.  A file is renamed
\* only when preprocess and request succeeded and the sanitized name is not
\* empty, and a rename the system refuses is reported with its message.
C16_FirstFailureEnds ==
    [][/\ SendsRequest =>
            /\ pc = "loop"
            /\ env'.preprocessOk
            /\ env'.reply = NoReply
            /\ result' = NoResult
       /\ Resolves /\ ~env'.preprocessOk =>
            /\ pc = "loop"
            /\ env'.reply = NoReply
            /\ fs' = fs
            /\ result' = RenameResult(FALSE, BaseName(CurrentPath), Undefined,
                                      PreprocessMessage(env'))
       /\ Resolves /\ env'.preprocessOk =>
            /\ pc = "awaitModel"
            /\ env'.reply \in Replies
       /\ Resolves /\ env'.preprocessOk /\ getImageName(env'.reply).threw =>
            /\ fs' = fs
            /\ result' = RenameResult(FALSE, BaseName(CurrentPath), Undefined,
                                      getImageName(env'.reply).message)
       /\ fs' # fs =>
            /\ Resolves
            /\ env'.preprocessOk
            /\ ~getImageName(env'.reply).threw
            /\ sanitizeFilename(getImageName(env'.reply).value) # <<>>
            /\ env'.renameOk
            /\ result'.success
       /\ Resolves /\ ~result'.success /\ env'.preprocessOk
                   /\ ~getImageName(env'.reply).threw
                   /\ sanitizeFilename(getImageName(env'.reply).value) # <<>> =>
            /\ ~env'.renameOk
            /\ fs' = fs
            /\ result'.error = <<"rename failed">>]_vars

\* C16 witness: the image was converted, the server answered the completion
\* request with a 500, and the task has ended with that error
C16_Witness ==
    /\ pc = "resolved"
    /\ env.preprocessOk
    /\ ~env.reply.threw
    /\ ~env.reply.ok
    /\ result = RenameResult(FALSE, BaseName(CurrentPath), Undefined,
                             <<"API request failed: ", "Internal Server Error">>)

\* the suffixes getUniqueFilename can add: none, or "_k"
Suffixes == {<<>>} \cup {<<"_">> \o ToStr(k) : k \in 1..Cardinality(DOMAIN fs)}

\* the step renames the file of the task in progress
Renames == Resolves /\ fs' # fs

\* C17: when a task renames its file, the outcome is a success whose oldName
\* is the basename of the task's path and whose newName is the sanitized
\* suggestion, then nothing or "_k", then the extension of the task's path
\* in lowercase; the file's content is then stored under newName in the
\* directory it was in, and no longer under the old path.
C17_NewNameShape ==
    [][Renames =>
        LET dir     == DirName(CurrentPath)
            clean   == sanitizeFilename(env'.reply.content)
            ext     == ToLowerCase(ExtName(CurrentPath))
            newPath == [dir |-> dir, name |-> result'.newName]
        IN  /\ result'.success
            /\ result'.error = Undefined
            /\ result'.oldName = BaseName(CurrentPath)
            /\ clean # <<>>
            /\ \E suffix \in Suffixes : result'.newName = clean \o suffix \o ext
            /\ newPath \in DOMAIN fs'
            /\ newPath \notin DOMAIN fs
            /\ fs'[newPath] = fs[CurrentPath]
            /\ CurrentPath \notin DOMAIN fs'
            /\ \A q \in DOMAIN fs' : fs'[q] = fs[CurrentPath] => q = newPath]_vars

\* C17 witness: the image E/cat.JPG has been renamed and its new name ends in
\* the lowercase extension .jpg
C17_Witness ==
    /\ pc = "resolved"
    /\ CurrentPath = CatUpper
    /\ result.success
    /\ result.error = Undefined
    /\ ExtName([dir |-> "E", name |-> result.newName]) = DotJpg
    /\ [dir |-> "E", name |-> result.newName] \in DOMAIN fs
    /\ CatUpper \notin DOMAIN fs

\* the extensions the claim lists
ClaimedExtensions ==
    { <<".","j","p","g">>, <<".","j","p","e","g">>, <<".","p","n","g">>,
      <<".","g","i","f">>, <<".","w","e","b","p">>, <<".","b","m","p">>,
      <<".","t","i","f","f">> }

\* the path's extension is one of them, whatever the case of its letters
Qualifies(p) ==
    LET ext == ExtName(p)
    IN  \E e \in ClaimedExtensions :
            /\ Len(ext) = Len(e)
            /\ \A k \in DOMAIN e : ToLowerChar(ext[k]) = e[k]

\* the positions of the selection that hold a qualifying path
QualifyingAt == {k \in DOMAIN finderItems : Qualifies(finderItems[k])}

\* the j-th smallest element of the set Q of numbers
Nth(Q, j) == CHOOSE k \in Q : Cardinality({m \in Q : m <= k}) = j

\* file names with the verdict expected of each
ExtensionTable ==
    { [name |-> <<"a",".","j","p","g">>, image |-> TRUE],
      [name |-> <<"a",".","J","P","E","G">>, image |-> TRUE],
      [name |-> <<"a",".","P","n","g">>, image |-> TRUE],
      [name |-> <<"a",".","g","i","f">>, image |-> TRUE],
      [name |-> <<"a",".","W","E","B","P">>, image |-> TRUE],
      [name |-> <<"a",".","b","m","p">>, image |-> TRUE],
      [name |-> <<"a",".","T","i","F","f">>, image |-> TRUE],
      [name |-> <<"a",".","t","x","t",".","j","p","g">>, image |-> TRUE],
      [name |-> <<"a",".","t","i","f">>, image |-> FALSE],
      [name |-> <<"a",".","t","x","t">>, image |-> FALSE],
      [name |-> <<"j","p","g">>, image |-> FALSE],
      [name |-> <<".","j","p","g">>, image |-> FALSE],
      [name |-> <<"a",".","j","p","g",".","t","x","t">>, image |-> FALSE],
      [name |-> <<"a",".">>, image |-> FALSE],
      [name |-> <<"a",".","j","p","g","x">>, image |-> FALSE],
      [name |-> <<"a",".","h","e","i","c">>, image |-> FALSE] }

\* isImageFile gives the expected verdict on every name of the table
ExtensionTableHolds ==
    \A t \in ExtensionTable :
        isImageFile([dir |-> "D", name |-> t.name]) = t.image

\* C18: the list of tasks is the selection restricted to the paths whose
\* extension is, whatever its case, one of .jpg .jpeg .png .gif .webp .bmp
\* .tiff, in the order of the selection, each with its basename; and
\* isImageFile gives the expected verdict on a table of names of every
\* listed extension, of mixed case, and of other or no extension.
C18_TaskList ==
    /\ ExtensionTableHolds
    /\ pc \notin {"init", "error"} =>
         LET Q == QualifyingAt
         IN  /\ Len(images) = Cardinality(Q)
             /\ \A j \in DOMAIN images :
                  /\ images[j].path = finderItems[Nth(Q, j)]
                  /\ images[j].name = BaseName(images[j].path)

\* C18 witness: three files were selected, the one in the middle is not an
\* image, and the two others are the tasks, in the order of the selection
C18_Witness ==
    /\ pc = "form"
    /\ Len(finderItems) = 3
    /\ finderItems[2] = NotesTxt
    /\ finderItems[3] = CatUpper
    /\ Len(images) = 2
    /\ images[1].path = finderItems[1]
    /\ images[2].path = CatUpper

\* the outcome is the no-op rename: a success carrying the unchanged note
IsNoOp(o) == o.success /\ o.error = <<"Name unchanged">>

\* C19: the terminal status of a task is a function of its outcome: skipped
\* exactly for a success carrying "Name unchanged", success exactly for a
\* success without it, error exactly for a failure; the entry shows the
\* outcome's names, and the message of a failure.
C19_StatusOfOutcome ==
    \A k \in DOMAIN outcomes :
        LET o == outcomes[k]
            e == results[k]
        IN  /\ e.status \in TerminalStatus
            /\ e.status = "skipped" <=> IsNoOp(o)
            /\ e.status = "success" <=> o.success /\ ~IsNoOp(o)
            /\ e.status = "error" <=> ~o.success
            /\ e.oldName = o.oldName
            /\ o.success => e.newName = o.newName
            /\ ~o.success => e.error = o.error

\* C19 witness: a task whose outcome was the no-op rename is shown as
\* skipped after the batch
C19_Witness ==
    /\ pc = "done"
    /\ Len(outcomes) = 1
    /\ IsNoOp(outcomes[1])
    /\ results[1].status = "skipped"
    /\ results[1].newName = results[1].oldName

\* the paths of the tasks
TaskPaths == {images[k].path : k \in DOMAIN images}

\* task k has not renamed anything yet: it has not started, or it is in
\* progress and renameImage has not returned
Untouched(k) == k > i /\ ~(k = i + 1 /\ pc = "resolved")

\* where the file of the finished task k is
RestingPath(k) ==
    IF outcomes[k].success /\ outcomes[k].newName # outcomes[k].oldName
    THEN FinalPath(k) ELSE images[k].path

\* C20: a batch conserves the files.  In every state the number of files is
\* the number before the batch and every file that existed before the batch
\* exists exactly once with its content; a file that is not a task's is at
\* its path; the file of a task that has not renamed yet is at the task's
\* path, so the path is valid when the task starts; the file of a finished
\* task stays where that task left it, whatever later tasks do.
C20_Conservation ==
    /\ Cardinality(DOMAIN fs) = Cardinality(DOMAIN fs0)
    /\ \A p \in DOMAIN fs0 :
         Cardinality({q \in DOMAIN fs : fs[q] = fs0[p]}) = 1
    /\ \A p \in DOMAIN fs0 \ TaskPaths :
         p \in DOMAIN fs /\ fs[p] = fs0[p]
    /\ \A k \in DOMAIN images :
         Untouched(k) =>
            /\ images[k].path \in DOMAIN fs
            /\ fs[images[k].path] = fs0[images[k].path]
    /\ \A k \in DOMAIN outcomes :
         /\ RestingPath(k) \in DOMAIN fs
         /\ fs[RestingPath(k)] = fs0[images[k].path]

\* C20 witness: three images were renamed one after the other next to a file
\* that is not an image, and the batch is over
C20_Witness ==
    /\ pc = "done"
    /\ Len(outcomes) = 3
    /\ \A k \in DOMAIN outcomes :
         outcomes[k].success /\ outcomes[k].newName # outcomes[k].oldName
    /\ NotesTxt \in DOMAIN fs0
    /\ \A k \in DOMAIN images : images[k].path \notin DOMAIN fs

\* the replies for which renameImage calls getUniqueFilename
ResolvesPath(reply) ==
    /\ ~getImageName(reply).threw
    /\ sanitizeFilename(getImageName(reply).value) # <<>>

\* entry k of the list has not reached a terminal status
Unfinished(k) ==
    k \in DOMAIN results /\ results[k].status \in {"pending", "processing"}

\* entry k of the list shows a terminal status
Finished(k) ==
    k \in DOMAIN results /\ results[k].status \in TerminalStatus

\* every entry is terminal and the tally is shown
BatchOver ==
    /\ pc = "done"
    /\ toast.shown
    /\ \A k \in DOMAIN images : Finished(k)

\* C21: the batch terminates.  Whatever the model may reply to the task in
\* progress, the probing loop of getUniqueFilename ends after at most one
\* probe more than there are files; and, when every conversion and every
\* request returns or fails, a batch that is running or has a task pending
\* or processing eventually shows the tally with every task at a terminal
\* status.
C21_BatchTerminates ==
    /\ [](pc = "awaitModel" =>
            \A reply \in {r \in Replies : ResolvesPath(r)} :
                getUniqueFilenameProbes(
                    DirName(CurrentPath),
                    sanitizeFilename(getImageName(reply).value),
                    renameExt(CurrentPath)) <= Cardinality(DOMAIN fs) + 1)
    /\ (pc \in {"loop", "awaitModel", "resolved"} \/ \E k \in DOMAIN results : Unfinished(k))
           ~> BatchOver

\* C21 witness: a batch of two tasks is over and the tally is shown, and
\* the loop of getUniqueFilename went past cat.jpg and cat_1.jpg to cat_2.jpg
\* for one of them
C21_Witness ==
    /\ BatchOver
    /\ Len(images) = 2
    /\ toast.total = 2
    /\ \E k \in DOMAIN outcomes :
         /\ outcomes[k].success
         /\ outcomes[k].newName = Cat \o <<"_","2">> \o DotJpg

====
